---- MODULE Spec2Model ----
(***************************************************************************)
(* Clearance / netclass resolution of BOARD_CONNECTED_ITEM                 *)
(* (pcbnew/board_connected_item.cpp).                                      *)
(*                                                                         *)
(* One board, two board items "A" and "B".  "A" is always a connected      *)
(* item; "B" is either a connected item or a plain BOARD_ITEM (e.g. a      *)
(* graphic segment), for which dynamic_cast<BOARD_CONNECTED_ITEM*> yields  *)
(* nullptr.  The board's settings, netclasses and rules are read-only for  *)
(* the code modelled here, so they are drawn once in Init.                 *)
(***************************************************************************)
EXTENDS Integers, Sequences, FiniteSets, TLC

\* Largest clearance value drawn for a board / netclass / item setting.
MaxClr == 2

Clr == 0..MaxClr

\* ---------------------------------------------------------------- layers
F_Cu == "F_Cu"
B_Cu == "B_Cu"
Edge_Cuts == "Edge_Cuts"

\* Layers an item is constructed on, and layers a clearance is asked for.
ItemLayers == {F_Cu, Edge_Cuts}
QueryLayers == {F_Cu, B_Cu}

IsCopperLayer(aLayer) == aLayer \in {F_Cu, B_Cu}

\* ------------------------------------------------------------- netclasses
NULLCLASS == "nullclass"
DefaultNetclass == "Default"
OtherNetclass == "NC1"
\* The netclasses of the board, each with a clearance.
Netclasses == {DefaultNetclass, OtherNetclass}
\* The netclass of the orphaned net record, which is no netclass of a board
\* ("the orphaned net netclass, not the default netclass").
OrphanNetclass == "<invalid>"

\* ------------------------------------------------------------ net records
\* References an item's m_netinfo can hold.
NULLNET == "nullnet"
ORPHANED == "orphaned"
BoardNetRefs == {"net0", "net1", "net2"}
NetRefs == {NULLNET, ORPHANED} \cup BoardNetRefs

\* FORCE_ORPHANED (-1), the nets of the board (0..2) and a code with no net.
NetCodes == {-1, 0, 1, 2, 3}

\* The records as they are created.  The orphaned record and net0 have net
\* code 0; net0 keeps a stale reference to a non-default netclass; net2 has
\* no netclass of its own.
NetTable ==
    [ref \in {ORPHANED} \cup BoardNetRefs |->
        CASE ref = ORPHANED -> [m_NetCode |-> 0, m_NetClass |-> OrphanNetclass]
          [] ref = "net0"   -> [m_NetCode |-> 0, m_NetClass |-> OtherNetclass]
          [] ref = "net1"   -> [m_NetCode |-> 1, m_NetClass |-> OtherNetclass]
          [] ref = "net2"   -> [m_NetCode |-> 2, m_NetClass |-> NULLCLASS]]

\* BOARD::FindNet: the board's net with that code, NULL when there is none.
FindNet(aNetCode) ==
    CASE aNetCode = 0 -> "net0"
      [] aNetCode = 1 -> "net1"
      [] aNetCode = 2 -> "net2"
      [] OTHER        -> NULLNET

\* ------------------------------------------------------------------ state
ItemIds == {"A", "B"}
NOITEM == "none"

VARIABLES
    bds,         \* BOARD_DESIGN_SETTINGS: m_MinClearance, m_CopperEdgeClearance
    netclasses,  \* netclass name -> its clearance
    rules,       \* the board's ordered rule list
    nets,        \* net reference -> the net record (the orphaned one included)
    items,       \* item id -> the item's fields
    last,        \* the last call and what it returned
    sym,         \* SYMBOL_EDIT_FRAME: current part, undo and redo lists, parts
    symLast,     \* the last call on the symbol editor and the state before it
    tool         \* EDIT_TOOL and its frame: tool stack, commit, move in progress

vars == <<bds, netclasses, rules, nets, items, last, sym, symLast, tool>>

\* The state of the board and of the queries on it; the state of the editors.
boardVars == <<bds, netclasses, rules, nets, items, last>>
editVars == <<sym, symLast, tool>>

\* The record a reference points to.
NetRecord(ref) == nets[ref]

\* ------------------------------------------------------------- accessors
\* BOARD_ITEM::GetBoard: non-null exactly when the item is attached.
GetBoard(id) == items[id].board

\* BOARD_ITEM::IsOnCopperLayer
IsOnCopperLayer(id) == IsCopperLayer(items[id].layer)

\* Mutation of Second: the cast does not check the class of the item, every
\* item is taken for a connected item.
Second_NoCast(aItem) == aItem

\* dynamic_cast<BOARD_CONNECTED_ITEM*>( aItem ): the item itself when it is a
\* connected item, nullptr for no item and for any other kind of item.
Second(aItem) ==
    IF aItem # NOITEM /\ items[aItem].connected THEN aItem ELSE NOITEM

\* Virtuals of the item's class: the local clearance override (level 1) and
\* the local clearance (level 3), each with the label it reports.
GetLocalClearanceOverrides(id) == items[id].override
GetLocalClearance(id) == items[id].localClearance
OverrideSource(id) == <<"override", id>>
LocalSource(id) == <<"local", id>>

\* NETCLASS::GetClearance and the label it reports.  The netclass of the
\* orphaned net record belongs to no board and carries no clearance.
NetclassClearance(nc) == IF nc \in DOMAIN netclasses THEN netclasses[nc] ELSE 0
NetclassSource(nc) == <<"netclass", nc>>

NOSOURCE == <<>>
MinSource == <<"board minimum">>
EdgeSource == <<"board edge">>
RuleSource(name) == <<"rule", name>>

\* ------------------------------------------------ undefined behaviour
\* A call through a null pointer (m_netinfo or GetBoard()) is undefined:
\* the build may fault, or carry on with whatever netclass pointer it reads.
FAULT == "fault"
Undefined == {FAULT, NULLCLASS} \cup Netclasses

\* ----------------------------------------------------------- netclasses
\* Mutation of GetNetClass: the fallback to the Default netclass is missing.
GetNetClass_NoFallback(id) ==
    IF items[id].m_netinfo = NULLNET
    THEN Undefined
    ELSE {NetRecord(items[id].m_netinfo).m_NetClass}

\* Mutation of GetNetClass: a net record without a netclass is an assertion
\* failure instead of a fallback to the Default netclass.
GetNetClass_AssertsOnNull(id) ==
    IF items[id].m_netinfo = NULLNET
    THEN Undefined
    ELSE LET netclass == NetRecord(items[id].m_netinfo).m_NetClass
         IN  IF netclass # NULLCLASS THEN {netclass} ELSE {FAULT}

\* BOARD_CONNECTED_ITEM::GetNetClass: the set of results the call can have.
GetNetClass(id) ==
    IF items[id].m_netinfo = NULLNET
    THEN Undefined
    ELSE LET netclass == NetRecord(items[id].m_netinfo).m_NetClass
         IN  IF netclass # NULLCLASS
             THEN {netclass}
             ELSE IF GetBoard(id) THEN {DefaultNetclass} ELSE Undefined

\* Mutation of GetEffectiveNetclass: the net code is not checked first.
GetEffectiveNetclass_NoZeroCheck(id) ==
    IF items[id].m_netinfo = NULLNET THEN Undefined ELSE GetNetClass(id)

\* BOARD_CONNECTED_ITEM::GetEffectiveNetclass: the set of results.
GetEffectiveNetclass(id) ==
    IF items[id].m_netinfo = NULLNET
    THEN Undefined
    ELSE IF NetRecord(items[id].m_netinfo).m_NetCode = 0
         THEN IF GetBoard(id) THEN {DefaultNetclass} ELSE Undefined
         ELSE GetNetClass(id)

\* ------------------------------------------------------------------ rules
\* A rule accepts a query on its own layer, or on every layer ("any").
RuleAccepts(rule, this, aItem, aLayer) ==
    rule.layer \in {"any", aLayer}

\* GetConstraint: index of the first rule of the ordered list that accepts
\* the query and constrains aType; 0 when there is none.
GetConstraint(this, aItem, aType, aLayer) ==
    LET hits == {i \in 1..Len(rules) :
                    /\ rules[i].type = aType
                    /\ RuleAccepts(rules[i], this, aItem, aLayer)}
    IN  IF hits = {} THEN 0
        ELSE CHOOSE i \in hits : \A j \in hits : i <= j

\* Mutation of GetRuleClearance: the clearance is written in both cases, as 0
\* when no rule matches.
GetRuleClearance_ZeroesOnMiss(this, aItem, aLayer, aClearance, aSource) ==
    LET constraint == GetConstraint(this, aItem, "clearance", aLayer)
    IN  IF constraint # 0
        THEN [found |-> TRUE,
              clearance |-> rules[constraint].min,
              source |-> RuleSource(rules[constraint].name)]
        ELSE [found |-> FALSE, clearance |-> 0, source |-> aSource]

\* BOARD_CONNECTED_ITEM::GetRuleClearance: [found, clearance, source]; the
\* clearance and the source are the caller's, untouched, when no rule matches.
GetRuleClearance(this, aItem, aLayer, aClearance, aSource) ==
    LET constraint == GetConstraint(this, aItem, "clearance", aLayer)
    IN  IF constraint # 0
        THEN [found |-> TRUE,
              clearance |-> rules[constraint].min,
              source |-> RuleSource(rules[constraint].name)]
        ELSE [found |-> FALSE, clearance |-> aClearance, source |-> aSource]

\* -------------------------------------------------------------- clearance
Returned(value, source) == [fault |-> FALSE, value |-> value, source |-> source]
Faulted == [fault |-> TRUE, value |-> 0, source |-> NOSOURCE]

\* Mutation of Raise: the candidates are added up.
Raise_Sum(acc, applies, value, source) ==
    IF applies /\ value > 0 THEN Returned(acc.value + value, source) ELSE acc

\* Mutation of Raise: the first non-zero candidate stays.
Raise_FirstNonZero(acc, applies, value, source) ==
    IF applies /\ acc.value = 0 /\ value > 0 THEN Returned(value, source) ELSE acc

\* Mutation of Raise: a candidate equal to the running value replaces it.
Raise_LastOfTies(acc, applies, value, source) ==
    IF applies /\ value >= acc.value THEN Returned(value, source) ELSE acc

\* One candidate: it replaces the running value only when strictly greater.
Raise(acc, applies, value, source) ==
    IF applies /\ value > acc.value THEN Returned(value, source) ELSE acc

\* Mutation of LocalOverrides: the override of this wins whenever it is
\* set, the override of second is read only otherwise.
LocalOverrides_OwnFirst(this, second) ==
    IF GetLocalClearanceOverrides(this) > 0
    THEN Returned(GetLocalClearanceOverrides(this), OverrideSource(this))
    ELSE IF second # NOITEM /\ GetLocalClearanceOverrides(second) > 0
         THEN Returned(GetLocalClearanceOverrides(second), OverrideSource(second))
         ELSE Returned(0, NOSOURCE)

\* LEVEL 1 of GetClearance: the local overrides of this and of second.
LocalOverrides(this, second) ==
    LET own == Raise(Returned(0, NOSOURCE), TRUE,
                     GetLocalClearanceOverrides(this), OverrideSource(this))
    IN  IF second # NOITEM
        THEN Raise(own, TRUE, GetLocalClearanceOverrides(second),
                   OverrideSource(second))
        ELSE own

\* Mutation of AfterOverrides: the early return is missing, the override is
\* only the value the later levels start from.
AfterOverrides_Accumulate(level1, rest) == rest

\* "if( clearance ) return clearance;": a non-zero level 1 is the result.
AfterOverrides(level1, rest) ==
    IF level1.value # 0 THEN {level1} ELSE rest

\* Mutation of AfterRule: the early return is missing, the rule's minimum is
\* only the value level 3 starts from.
AfterRule_Accumulate(rule, rest) == rest

\* Mutation of AfterRule: a matching rule is the result only when its
\* minimum is not 0, as for the local overrides.
AfterRule_SkipsZero(rule, rest) ==
    IF rule.found /\ rule.clearance # 0
    THEN {Returned(rule.clearance, rule.source)}
    ELSE rest

\* "if( GetRuleClearance( ... ) ) return clearance;": a rule is the result.
AfterRule(rule, rest) ==
    IF rule.found THEN {Returned(rule.clearance, rule.source)} ELSE rest

\* Mutation of EdgeApplies: the copper-edge clearance is always a candidate.
EdgeApplies_Always(aItem) == TRUE

\* Mutation of EdgeApplies: the layer of the second item is not checked.
EdgeApplies_AnyLayer(aItem) == aItem # NOITEM

\* The copper-edge clearance is a candidate for a second item on Edge_Cuts.
EdgeApplies(aItem) ==
    aItem # NOITEM /\ items[aItem].layer = Edge_Cuts

\* LEVEL 3 of GetClearance, given the design settings and the two netclass
\* pointers that were read (NULLCLASS for secondNetclass without a second).
Accumulated(aBds, this, aItem, second, netclass, secondNetclass, start) ==
    LET c1 == Raise(start, TRUE, aBds.m_MinClearance, MinSource)
        c2 == Raise(c1, netclass # NULLCLASS,
                    IF netclass # NULLCLASS THEN NetclassClearance(netclass) ELSE 0,
                    NetclassSource(netclass))
        c3 == Raise(c2, secondNetclass # NULLCLASS,
                    IF secondNetclass # NULLCLASS
                    THEN NetclassClearance(secondNetclass) ELSE 0,
                    NetclassSource(secondNetclass))
        c4 == Raise(c3, EdgeApplies(aItem), aBds.m_CopperEdgeClearance, EdgeSource)
        c5 == Raise(c4, TRUE, GetLocalClearance(this), LocalSource(this))
        c6 == Raise(c5, second # NOITEM,
                    IF second # NOITEM THEN GetLocalClearance(second) ELSE 0,
                    LocalSource(second))
    IN  c6

\* LEVEL 3 with the netclasses read first: every outcome it can have.
Level3(aBds, this, aItem, second, start) ==
    LET firsts == GetEffectiveNetclass(this)
        seconds == IF second # NOITEM
                   THEN GetEffectiveNetclass(second)
                   ELSE {NULLCLASS}
    IN  { IF nc = FAULT \/ snc = FAULT
          THEN Faulted
          ELSE Accumulated(aBds, this, aItem, second, nc, snc, start)
          : nc \in firsts, snc \in seconds }

\* GetClearance once this is known to have a board: levels 1, 2 and 3.
Levels(aBds, this, aItem, aLayer) ==
    LET second == Second(aItem)
        level1 == LocalOverrides(this, second)
        rule == GetRuleClearance(this, aItem, aLayer, level1.value, level1.source)
        start == Returned(rule.clearance, rule.source)
    IN  AfterOverrides(level1,
            AfterRule(rule, Level3(aBds, this, aItem, second, start)))

\* Mutation of GetClearanceOn: the no-board guard is missing.
GetClearanceOn_NoGuard(aBds, this, aItem, aLayer) ==
    Levels(aBds, this, aItem, aLayer)

\* BOARD_CONNECTED_ITEM::GetClearance on a board with design settings aBds:
\* the set of outcomes the call can have.
GetClearanceOn(aBds, this, aItem, aLayer) ==
    IF ~GetBoard(this)
    THEN {Returned(0, NOSOURCE)}
    ELSE Levels(aBds, this, aItem, aLayer)

GetClearance(this, aItem, aLayer) == GetClearanceOn(bds, this, aItem, aLayer)

\* ------------------------------------------- symbol editor: undo and redo
\* SYMBOL_EDIT_FRAME keeps the part being edited (m_my_part) and two lists of
\* commands; each command holds one ITEM_PICKER: a LIB_PART and the kind of
\* change. The last element of a list is its top. LIB_PART objects are
\* numbered in the order they are allocated; a deleted object's number is never
\* given out again.

MaxParts == 4

NULLPART == 0
PartIds == 1 .. MaxParts
UndoTypes == {"LIBEDIT", "LIB_RENAME"}
PartNames == {"R", "C"}
EditFlags == {"IS_MOVED"}
UR_TRANSIENT == "UR_TRANSIENT"

FreePart == [state |-> "free", flags |-> {}, name |-> "R"]
DeletedPart == [state |-> "deleted", flags |-> {}, name |-> "R"]

\* ITEM_PICKER wrapper( GetScreen(), part, type )
ITEM_PICKER(aItem, aStatus) == [item |-> aItem, status |-> aStatus]

\* the frame right after a part with this name and these flags is loaded
SymbolFrame(name, flags) ==
    [ m_my_part |-> 1,
      undoList |-> <<>>,
      redoList |-> <<>>,
      parts |-> [p \in PartIds |->
                    IF p = 1 THEN [state |-> "live", flags |-> flags, name |-> name]
                    ELSE FreePart] ]

FreeParts(st) == {p \in PartIds : st.parts[p].state = "free"}

\* new LIB_PART: the next object
NewPart(st) == CHOOSE p \in FreeParts(st) : \A q \in FreeParts(st) : p <= q

GetUndoCommandCount(st) == Len(st.undoList)
GetRedoCommandCount(st) == Len(st.redoList)

PushCommandToUndoList(st, aCommand) ==
    [st EXCEPT !.undoList = Append(@, aCommand)]

PushCommandToRedoList(st, aCommand) ==
    [st EXCEPT !.redoList = Append(@, aCommand)]

\* the top of a list, and the list without it
Top(list) == list[Len(list)]
Popped(list) == SubSeq(list, 1, Len(list) - 1)

PartsOf(list) == {list[i].item : i \in 1 .. Len(list)}

\* ClearUndoORRedoList( REDO_LIST ): the list owns its parts and deletes them
ClearRedoList(st) ==
    [st EXCEPT !.redoList = <<>>,
               !.parts = [p \in PartIds |->
                             IF p \in PartsOf(st.redoList) THEN DeletedPart
                             ELSE st.parts[p]]]

\* SetCurPart( part ): deletes the part it replaces
SetCurPart(st, aPart) ==
    [st EXCEPT !.m_my_part = aPart,
               !.parts = [p \in PartIds |->
                             IF p = st.m_my_part /\ p # aPart THEN DeletedPart
                             ELSE st.parts[p]]]

ClearFlags(st, aPart, aMask) ==
    [st EXCEPT !.parts[aPart].flags = @ \ aMask]

SetFlags(st, aPart, aMask) ==
    [st EXCEPT !.parts[aPart].flags = @ \cup aMask]

\* copyItem = new LIB_PART( *aItem ) with its temporary and edit flags cleared
\* and UR_TRANSIENT set
CopyPart(st, aItem) ==
    [st EXCEPT !.parts[NewPart(st)] =
                   [state |-> "live", flags |-> {UR_TRANSIENT},
                    name |-> st.parts[aItem].name]]

\* Mutation of SaveCopyInUndoList: the redo list is not cleared.
SaveCopyInUndoList_KeepsRedo(st, aItem, aUndoType) ==
    IF aItem = NULLPART THEN st
    ELSE PushCommandToUndoList(CopyPart(st, aItem),
                               ITEM_PICKER(NewPart(st), aUndoType))

\* aAppend only feeds an assertion and is left out
SaveCopyInUndoList(st, aItem, aUndoType) ==
    IF aItem = NULLPART THEN st
    ELSE ClearRedoList(
             PushCommandToUndoList(CopyPart(st, aItem),
                                   ITEM_PICKER(NewPart(st), aUndoType)))

\* Mutation of GetSymbolFromRedoList: the part is made current with SetCurPart.
GetSymbolFromRedoList_SetCurPart(st) ==
    IF GetRedoCommandCount(st) <= 0 THEN st
    ELSE LET redoWrapper == Top(st.redoList)
             part == redoWrapper.item
             oldPart == st.m_my_part
             popped == [st EXCEPT !.redoList = Popped(@)]
             cleared == ClearFlags(popped, part, {UR_TRANSIENT})
             flagged == SetFlags(cleared, oldPart, {UR_TRANSIENT})
             pushed == PushCommandToUndoList(flagged,
                           ITEM_PICKER(oldPart, redoWrapper.status))
         IN  SetCurPart(pushed, part)

GetSymbolFromRedoList(st) ==
    IF GetRedoCommandCount(st) <= 0 THEN st
    ELSE LET redoWrapper == Top(st.redoList)
             part == redoWrapper.item
             oldPart == st.m_my_part
             popped == [st EXCEPT !.redoList = Popped(@)]
             cleared == ClearFlags(popped, part, {UR_TRANSIENT})
             flagged == SetFlags(cleared, oldPart, {UR_TRANSIENT})
             pushed == PushCommandToUndoList(flagged,
                           ITEM_PICKER(oldPart, redoWrapper.status))
         IN  [pushed EXCEPT !.m_my_part = part]

\* Mutation of GetSymbolFromUndoList: the redo entry does not take over the undo type.
GetSymbolFromUndoList_PlainType(st) ==
    IF GetUndoCommandCount(st) <= 0 THEN st
    ELSE LET undoWrapper == Top(st.undoList)
             part == undoWrapper.item
             oldPart == st.m_my_part
             popped == [st EXCEPT !.undoList = Popped(@)]
             cleared == ClearFlags(popped, part, {UR_TRANSIENT})
             flagged == SetFlags(cleared, oldPart, {UR_TRANSIENT})
             pushed == PushCommandToRedoList(flagged,
                           ITEM_PICKER(oldPart, "LIBEDIT"))
         IN  [pushed EXCEPT !.m_my_part = part]

GetSymbolFromUndoList(st) ==
    IF GetUndoCommandCount(st) <= 0 THEN st
    ELSE LET undoWrapper == Top(st.undoList)
             part == undoWrapper.item
             oldPart == st.m_my_part
             popped == [st EXCEPT !.undoList = Popped(@)]
             cleared == ClearFlags(popped, part, {UR_TRANSIENT})
             flagged == SetFlags(cleared, oldPart, {UR_TRANSIENT})
             pushed == PushCommandToRedoList(flagged,
                           ITEM_PICKER(oldPart, undoWrapper.status))
         IN  [pushed EXCEPT !.m_my_part = part]

\* Mutation of RollbackSymbolFromUndo: the replaced part is pushed onto the redo list.
RollbackSymbolFromUndo_KeepsForRedo(st) ==
    IF Len(st.undoList) = 0 THEN st
    ELSE GetSymbolFromUndoList(st)

\* PopCommandFromUndoList() returns null on an empty list
RollbackSymbolFromUndo(st) ==
    IF Len(st.undoList) = 0 THEN st
    ELSE LET undoWrapper == Top(st.undoList)
             part == undoWrapper.item
             popped == [st EXCEPT !.undoList = Popped(@)]
             cleared == ClearFlags(popped, part, {UR_TRANSIENT})
         IN  SetCurPart(cleared, part)

NoSymCall ==
    [op |-> "none", aItem |-> NULLPART, aUndoType |-> "LIBEDIT",
     before |-> SymbolFrame("R", {})]

\* ------------------------------------------------ editors at rest
\* The selected board item of the PCB editor: its position along the move
\* and what Rotate, Mirror and Flip change.
NewItem == [pos |-> 0, angle |-> 0, mirrored |-> FALSE, flipped |-> FALSE]

\* m_commit with nothing staged
NoCommit == [staged |-> FALSE, saved |-> NewItem]

\* EDIT_TOOL::EDIT_TOOL and its frame before any operation: no operation
\* running, nothing on the tool stack, m_dragging false, an empty commit.
ToolIdle ==
    [ pc |-> "idle", op |-> "none", aEvent |-> "none",
      toolStack |-> << >>, entryStack |-> << >>,
      m_dragging |-> FALSE, undoRedoBlock |-> FALSE,
      restore_state |-> FALSE, exit |-> "none", totalMovement |-> 0,
      item |-> NewItem,
      commit |-> NoCommit, log |-> << >>,
      ran |-> "none", acted |-> FALSE ]

EditorsIdle ==
    /\ sym = SymbolFrame("R", {})
    /\ symLast = NoSymCall
    /\ tool = ToolIdle

\* ------------------------------------------------------------------- Init
\* Values drawn for a setting that is unset or large.
OnOff == {0, MaxClr}
\* Values drawn for a setting that is unset or small.
Low == {0, 1}
\* Values drawn for a local clearance override.
OverrideValues == {0, 1, MaxClr}

\* Rule lists a board is loaded with: none; one clearance rule on F_Cu; a
\* rule of another constraint type ahead of two clearance rules, the second
\* of which accepts every layer and has minimum 0.
RuleSets ==
    { <<>>,
      << [name |-> "R1", type |-> "clearance", layer |-> F_Cu, min |-> 1] >>,
      << [name |-> "R0", type |-> "other", layer |-> "any", min |-> MaxClr],
         [name |-> "R1", type |-> "clearance", layer |-> B_Cu, min |-> MaxClr],
         [name |-> "R2", type |-> "clearance", layer |-> "any", min |-> 0] >> }

\* BOARD_CONNECTED_ITEM::BOARD_CONNECTED_ITEM: a new connected item refers to
\* the orphaned net record.
NewConnectedItem(aBoard, aLayer, aOverride, aLocal) ==
    [connected |-> TRUE, board |-> aBoard, layer |-> aLayer,
     m_netinfo |-> ORPHANED, override |-> aOverride, localClearance |-> aLocal]

\* Any other board item: no net, no local clearance settings.
NewPlainItem(aLayer) ==
    [connected |-> FALSE, board |-> TRUE, layer |-> aLayer,
     m_netinfo |-> ORPHANED, override |-> 0, localClearance |-> 0]

\* Mutation of SetNetCodeRef: the copper-layer check is missing.
SetNetCodeRef_NoCopperCheck(aOnCopper, aBoard, aNetCode) ==
    IF aNetCode >= 0 /\ aBoard THEN FindNet(aNetCode) ELSE ORPHANED

\* BOARD_CONNECTED_ITEM::SetNetCode: the reference it stores in m_netinfo.
SetNetCodeRef(aOnCopper, aBoard, aNetCode) ==
    LET code == IF ~aOnCopper THEN 0 ELSE aNetCode
    IN  IF code >= 0 /\ aBoard THEN FindNet(code) ELSE ORPHANED

\* The references an item can hold: the orphaned record it is constructed
\* with and whatever a SetNetCode call stored while it was on a copper layer.
ReachableRefs(aBoard) ==
    {ORPHANED} \cup {SetNetCodeRef(TRUE, aBoard, c) : c \in NetCodes}

\* A connected item after construction and any number of SetNetCode calls,
\* holding one of the references refs.
ConnectedItems(refs, layers, overrides, locals) ==
    { [NewConnectedItem(b, l, o, c) EXCEPT !.m_netinfo = ref] :
        <<b, ref>> \in {p \in BOOLEAN \X refs : p[2] \in ReachableRefs(p[1])},
        <<l, o, c>> \in layers \X overrides \X locals }

\* The references drawn for item B: no record, the orphaned record (net
\* code 0) and a net with a netclass of its own.
SecondRefs == {NULLNET, ORPHANED, "net1"}

PlainItems == {NewPlainItem(l) : l \in ItemLayers}

NoCall == [op |-> "none", this |-> NOITEM, aItem |-> NOITEM, aLayer |-> F_Cu,
           arg |-> 0, out |-> 0]

\* Boards on which no item has a local override, so that rules and level 3
\* decide: every setting is drawn independently.
InitDefaults ==
    /\ bds \in [m_MinClearance : Clr, m_CopperEdgeClearance : OnOff]
    /\ netclasses \in [Default : Low, NC1 : OnOff]
    /\ rules \in RuleSets
    /\ items \in [A : ConnectedItems(NetRefs, ItemLayers, {0}, OnOff),
                  B : ConnectedItems(SecondRefs, ItemLayers, {0}, Low) \cup PlainItems]

\* Boards on which an item has a local override: the overrides are drawn
\* independently, the settings they bypass are all unset or all set.
InitOverrides ==
    /\ \E v \in OnOff :
         /\ bds = [m_MinClearance |-> v, m_CopperEdgeClearance |-> v]
         /\ netclasses = [Default |-> v, NC1 |-> v]
         /\ items \in [A : ConnectedItems(NetRefs, ItemLayers, OverrideValues, {v}),
                       B : ConnectedItems(SecondRefs, ItemLayers, OverrideValues, {v})
                           \cup PlainItems]
    /\ items["A"].override > 0 \/ items["B"].override > 0
    /\ rules \in RuleSets

\* The three scenarios the specification states with their numbers.
\* Board minimum 150, netclass clearances 200 and 180, copper-edge clearance
\* 250, second item on Edge_Cuts, no rules, no overrides.
ScenarioEdge ==
    /\ bds = [m_MinClearance |-> 150, m_CopperEdgeClearance |-> 250]
    /\ netclasses = [Default |-> 180, NC1 |-> 200]
    /\ rules = <<>>
    /\ items = [A |-> [NewConnectedItem(TRUE, F_Cu, 0, 0) EXCEPT !.m_netinfo = "net1"],
                B |-> [NewConnectedItem(TRUE, Edge_Cuts, 0, 0) EXCEPT !.m_netinfo = "net2"]]

\* Item A has a local override of 100, no rules.
ScenarioOverride ==
    /\ bds = [m_MinClearance |-> 150, m_CopperEdgeClearance |-> 250]
    /\ netclasses = [Default |-> 180, NC1 |-> 200]
    /\ rules = <<>>
    /\ items = [A |-> [NewConnectedItem(TRUE, F_Cu, 100, 0) EXCEPT !.m_netinfo = "net1"],
                B |-> NewPlainItem(F_Cu)]

\* A rule matches with value 50, the item's netclass clearance is 300.
ScenarioRule ==
    /\ bds = [m_MinClearance |-> 150, m_CopperEdgeClearance |-> 250]
    /\ netclasses = [Default |-> 180, NC1 |-> 300]
    /\ rules = << [name |-> "R1", type |-> "clearance", layer |-> "any", min |-> 50] >>
    /\ items = [A |-> [NewConnectedItem(TRUE, F_Cu, 0, 0) EXCEPT !.m_netinfo = "net1"],
                B |-> NewPlainItem(F_Cu)]

\* A rule whose minimum is below zero matches (the minimum of a constraint is
\* a signed int read from the rule), the board minimum is positive.
ScenarioNegativeRule ==
    /\ bds = [m_MinClearance |-> 1, m_CopperEdgeClearance |-> 1]
    /\ netclasses = [Default |-> 1, NC1 |-> 1]
    /\ rules = << [name |-> "R1", type |-> "clearance", layer |-> "any", min |-> -1] >>
    /\ items = [A |-> [NewConnectedItem(TRUE, F_Cu, 0, 0) EXCEPT !.m_netinfo = "net1"],
                B |-> NewPlainItem(F_Cu)]

Init ==
    /\ \/ InitDefaults
       \/ InitOverrides
       \/ ScenarioEdge
       \/ ScenarioOverride
       \/ ScenarioRule
       \/ ScenarioNegativeRule
    /\ nets = NetTable
    /\ last = NoCall
    /\ EditorsIdle

\* ---------------------------------------------------------------- actions
ConnectedIds == {id \in ItemIds : items[id].connected}

\* One query per behaviour: a query changes nothing but the record of the
\* last call, so a further query would start from the same board.
Idle == last.op = "none"

\* Mutation of SetNetCode: the code is written into the record the item
\* refers to, instead of the item being pointed at another record.
SetNetCode_WritesRecord(id, aNetCode, aNoAssert) ==
    /\ id \in ConnectedIds
    /\ items[id].m_netinfo # NULLNET
    /\ nets' = [nets EXCEPT ![items[id].m_netinfo].m_NetCode = aNetCode]
    /\ last' = [op |-> "SetNetCode", this |-> id, aItem |-> NOITEM,
                aLayer |-> F_Cu, arg |-> aNetCode,
                out |-> [ret |-> TRUE, asserted |-> FALSE]]
    /\ UNCHANGED <<bds, netclasses, rules, items, editVars>>

\* Mutation of SetNetCode: when the board has no net for the code the item
\* keeps the reference it had, and the call returns false.
SetNetCode_KeepsOnMiss(id, aNetCode, aNoAssert) ==
    /\ id \in ConnectedIds
    /\ LET ref == SetNetCodeRef(IsOnCopperLayer(id), GetBoard(id), aNetCode)
       IN  /\ items' = [items EXCEPT ![id].m_netinfo =
                            IF ref = NULLNET THEN items[id].m_netinfo ELSE ref]
           /\ last' = [op |-> "SetNetCode", this |-> id, aItem |-> NOITEM,
                       aLayer |-> F_Cu, arg |-> aNetCode,
                       out |-> [ret |-> ref # NULLNET,
                                asserted |-> ~aNoAssert /\ ref = NULLNET]]
    /\ UNCHANGED <<bds, netclasses, rules, nets, editVars>>

\* BOARD_CONNECTED_ITEM::SetNetCode( aNetCode, aNoAssert ): the reference is
\* stored, wxASSERT fires on a null reference unless aNoAssert, and the call
\* returns whether the reference is non-null.
SetNetCode(id, aNetCode, aNoAssert) ==
    /\ id \in ConnectedIds
    /\ LET ref == SetNetCodeRef(IsOnCopperLayer(id), GetBoard(id), aNetCode)
       IN  /\ items' = [items EXCEPT ![id].m_netinfo = ref]
           /\ last' = [op |-> "SetNetCode", this |-> id, aItem |-> NOITEM,
                       aLayer |-> F_Cu, arg |-> aNetCode,
                       out |-> [ret |-> ref # NULLNET,
                                asserted |-> ~aNoAssert /\ ref = NULLNET]]
    /\ UNCHANGED <<bds, netclasses, rules, nets, editVars>>

\* Mutation of QueryGetClearance: the result is kept in the item, as its
\* local clearance, for the next call.
QueryGetClearance_Memoises(this, aItem, aLayer) ==
    /\ this \in ConnectedIds
    /\ aItem \in (DOMAIN items \cup {NOITEM}) \ {this}
    /\ \E out \in GetClearance(this, aItem, aLayer) :
         /\ last' = [op |-> "GetClearance", this |-> this, aItem |-> aItem,
                     aLayer |-> aLayer, arg |-> 0, out |-> out]
         /\ items' = [items EXCEPT ![this].localClearance = out.value]
    /\ UNCHANGED <<bds, netclasses, rules, nets, editVars>>

\* A call of GetClearance: it writes nothing but its result (const method,
\* locals and the caller's source string).
QueryGetClearance(this, aItem, aLayer) ==
    /\ this \in ConnectedIds
    /\ aItem \in (DOMAIN items \cup {NOITEM}) \ {this}
    /\ \E out \in GetClearance(this, aItem, aLayer) :
         last' = [op |-> "GetClearance", this |-> this, aItem |-> aItem,
                  aLayer |-> aLayer, arg |-> 0, out |-> out]
    /\ UNCHANGED <<bds, netclasses, rules, nets, items, editVars>>

CallGetClearance(this, aItem, aLayer) ==
    /\ Idle
    /\ QueryGetClearance(this, aItem, aLayer)

\* A call of GetEffectiveNetclass (const method).
QueryGetEffectiveNetclass(id) ==
    /\ id \in ConnectedIds
    /\ \E out \in GetEffectiveNetclass(id) :
         last' = [op |-> "GetEffectiveNetclass", this |-> id, aItem |-> NOITEM,
                  aLayer |-> F_Cu, arg |-> 0, out |-> out]
    /\ UNCHANGED <<bds, netclasses, rules, nets, items, editVars>>

CallGetEffectiveNetclass(id) ==
    /\ Idle
    /\ QueryGetEffectiveNetclass(id)

CallGetNetClass(id) ==
    /\ Idle
    /\ id \in ConnectedIds
    /\ \E out \in GetNetClass(id) :
         last' = [op |-> "GetNetClass", this |-> id, aItem |-> NOITEM,
                  aLayer |-> F_Cu, arg |-> 0, out |-> out]
    /\ UNCHANGED <<bds, netclasses, rules, nets, items, editVars>>

Next ==
    \/ \E this \in ItemIds, aItem \in ItemIds \cup {NOITEM}, aLayer \in QueryLayers :
         CallGetClearance(this, aItem, aLayer)
    \/ \E id \in ItemIds : CallGetEffectiveNetclass(id)
    \/ \E id \in ItemIds : CallGetNetClass(id)

Spec == Init /\ [][Next]_vars

\* ------------------------------------------- nets and layers of the items
\* BOARD_CONNECTED_ITEM::GetNetCode: the net code of the record the item
\* refers to, -1 without a record.
GetNetCode(id) ==
    IF items[id].m_netinfo = NULLNET
    THEN -1
    ELSE NetRecord(items[id].m_netinfo).m_NetCode

\* BOARD_ITEM::SetLayer, the setter of the "Layer" property: the layer is
\* stored, the net of the item is left as it is.
SetLayer(id, aLayer) ==
    /\ id \in ConnectedIds
    /\ items' = [items EXCEPT ![id].layer = aLayer]
    /\ last' = [op |-> "SetLayer", this |-> id, aItem |-> NOITEM,
                aLayer |-> aLayer, arg |-> 0, out |-> 0]
    /\ UNCHANGED <<bds, netclasses, rules, nets, editVars>>

\* A call of GetRuleClearance with the caller's clearance aClearance and an
\* empty source string (const method).
QueryGetRuleClearance(this, aItem, aLayer, aClearance) ==
    /\ this \in ConnectedIds
    /\ aItem \in (DOMAIN items \cup {NOITEM}) \ {this}
    /\ last' = [op |-> "GetRuleClearance", this |-> this, aItem |-> aItem,
                aLayer |-> aLayer, arg |-> aClearance,
                out |-> GetRuleClearance(this, aItem, aLayer, aClearance, NOSOURCE)]
    /\ UNCHANGED <<bds, netclasses, rules, nets, items, editVars>>

\* A third item, never modified, to query clearances against: a track on a
\* net with a netclass of its own, or a board outline segment.
ThirdItems ==
    { [NewConnectedItem(TRUE, F_Cu, 0, 1) EXCEPT !.m_netinfo = "net1"],
      NewPlainItem(Edge_Cuts) }

\* Two connected items right after construction, attached to the board or
\* not, with the same local clearance; the netclasses differ in clearance.
InitNet ==
    /\ bds = [m_MinClearance |-> 0, m_CopperEdgeClearance |-> MaxClr]
    /\ netclasses = [Default |-> 1, NC1 |-> MaxClr]
    /\ rules \in RuleSets
    /\ nets = NetTable
    /\ \E v \in Low :
         items \in [A : {NewConnectedItem(b, l, 0, v) : b \in BOOLEAN, l \in ItemLayers},
                    B : {NewConnectedItem(b, l, 0, v) : b \in BOOLEAN, l \in ItemLayers},
                    C : ThirdItems]
    /\ last = NoCall
    /\ EditorsIdle

NextNet ==
    \/ \E id \in ItemIds, aNetCode \in NetCodes, aNoAssert \in BOOLEAN :
         SetNetCode(id, aNetCode, aNoAssert)
    \/ \E id \in ItemIds, aLayer \in ItemLayers : SetLayer(id, aLayer)
    \/ \E this \in ItemIds, aItem \in {"A", "B", "C", NOITEM}, aLayer \in QueryLayers :
         QueryGetClearance(this, aItem, aLayer)
    \/ \E id \in ItemIds : QueryGetEffectiveNetclass(id)
    \/ \E this \in ItemIds, aItem \in {"A", "B", "C", NOITEM}, aLayer \in QueryLayers,
          aClearance \in Low :
         QueryGetRuleClearance(this, aItem, aLayer, aClearance)

SpecNet == InitNet /\ [][NextNet]_vars

\* ---------------------------------------------------- the symbol editor
\* The board while only an editor is at work.
BoardAtRest ==
    /\ bds = [m_MinClearance |-> 0, m_CopperEdgeClearance |-> 0]
    /\ netclasses = [Default |-> 0, NC1 |-> 0]
    /\ rules = << >>
    /\ nets = NetTable
    /\ items = [A |-> NewConnectedItem(TRUE, F_Cu, 0, 0),
                B |-> NewConnectedItem(TRUE, F_Cu, 0, 0)]
    /\ last = NoCall

SymCall(op, aItem, aUndoType) ==
    [op |-> op, aItem |-> aItem, aUndoType |-> aUndoType, before |-> sym]

\* SYMBOL_EDIT_FRAME::SaveCopyInUndoList, called on the part being edited or
\* without an item, while there is room for the copy.
CallSaveCopyInUndoList(aItem, aUndoType) ==
    /\ aItem \in {NULLPART, sym.m_my_part}
    /\ aItem # NULLPART => FreeParts(sym) # {}
    /\ sym' = SaveCopyInUndoList(sym, aItem, aUndoType)
    /\ symLast' = SymCall("SaveCopyInUndoList", aItem, aUndoType)
    /\ UNCHANGED <<boardVars, tool>>

CallGetSymbolFromRedoList ==
    /\ sym' = GetSymbolFromRedoList(sym)
    /\ symLast' = SymCall("GetSymbolFromRedoList", NULLPART, "LIBEDIT")
    /\ UNCHANGED <<boardVars, tool>>

CallGetSymbolFromUndoList ==
    /\ sym' = GetSymbolFromUndoList(sym)
    /\ symLast' = SymCall("GetSymbolFromUndoList", NULLPART, "LIBEDIT")
    /\ UNCHANGED <<boardVars, tool>>

CallRollbackSymbolFromUndo ==
    /\ sym' = RollbackSymbolFromUndo(sym)
    /\ symLast' = SymCall("RollbackSymbolFromUndo", NULLPART, "LIBEDIT")
    /\ UNCHANGED <<boardVars, tool>>

InitSym ==
    /\ BoardAtRest
    /\ sym \in {SymbolFrame(n, f) : n \in PartNames, f \in SUBSET EditFlags}
    /\ symLast = NoSymCall
    /\ tool = ToolIdle

NextSym ==
    \/ \E aItem \in {NULLPART} \cup PartIds, aUndoType \in UndoTypes :
         CallSaveCopyInUndoList(aItem, aUndoType)
    \/ CallGetSymbolFromRedoList
    \/ CallGetSymbolFromUndoList
    \/ CallRollbackSymbolFromUndo

SpecSym == InitSym /\ [][NextSym]_vars

\* ------------------------------------------------- EDIT_TOOL: move and copy
\* The state t of the tool and its frame is a record: pc is where the running
\* operation waits ("pick": in pickReferencePoint, "loop": in the Wait() of
\* the move loop, "done": it has returned), exit is the way its loop ended,
\* log lists the Push and Revert calls on m_commit of the handler that ran
\* last or, in the move loop, of the move and the handlers it passed events to,
\* ran is the handler that ran last and acted tells that it got past its
\* early returns.

MaxMove == 1
MaxStack == 1

MoveActions == {"move", "moveWithReference"}
CopyActions == {"copy", "copyWithReference"}
MouseMoves == {"motion", "drag"}
\* what Wait() returns in the move loop; "none" is the null event
LoopEvents ==
    MouseMoves \cup {"refreshPreview", "cancel", "activate", "undo", "doDelete",
                     "duplicate", "moveExact", "mouseUp", "other", "none"}
Transforms == {"Rotate", "Mirror", "Flip"}
SelectReferencePoint == "pcbnew.InteractiveEdit.selectReferencePoint"

\* editFrame->PushTool( tool )
PushTool(t, aName) == [t EXCEPT !.toolStack = Append(@, aName)]

\* editFrame->PopTool( tool ): the topmost entry of that name is removed
PopTool(t, aName) ==
    LET at == {i \in 1 .. Len(t.toolStack) : t.toolStack[i] = aName}
        top == CHOOSE i \in at : \A j \in at : j <= i
    IN  IF at = {} THEN t
        ELSE [t EXCEPT !.toolStack =
                 SubSeq(@, 1, top - 1) \o SubSeq(@, top + 1, Len(@))]

\* m_commit->Modify( item ): the first call keeps a copy of the item
Modify(t) ==
    IF t.commit.staged THEN t
    ELSE [t EXCEPT !.commit = [staged |-> TRUE, saved |-> t.item]]

CommitCall(t, by, call, message) ==
    [by |-> by, call |-> call, message |-> message, commit |-> t.commit,
     dragging |-> t.m_dragging]

\* m_commit->Push( message ): the staged changes become one undo entry
Push(t, by, message) ==
    [t EXCEPT !.log = Append(@, CommitCall(t, by, "Push", message)),
              !.commit = NoCommit]

\* m_commit->Revert(): the staged items get their saved state back
Revert(t, by) ==
    [t EXCEPT !.item = IF t.commit.staged THEN t.commit.saved ELSE @,
              !.log = Append(@, CommitCall(t, by, "Revert", "")),
              !.commit = NoCommit]

\* Mutation of Epilogue: the commit is pushed whatever restore_state says.
Epilogue_AlwaysPushes(t, why) ==
    LET ended == [t EXCEPT !.exit = why, !.m_dragging = FALSE,
                           !.undoRedoBlock = FALSE]
        settled == Push(ended, "doMoveSelection", "Drag")
    IN  [PopTool(settled, t.aEvent) EXCEPT !.pc = "done"]

\* doMoveSelection after its loop (lines 631-656)
Epilogue(t, why) ==
    LET ended == [t EXCEPT !.exit = why, !.m_dragging = FALSE,
                           !.undoRedoBlock = FALSE]
        settled == IF ended.restore_state
                   THEN Revert(ended, "doMoveSelection")
                   ELSE Push(ended, "doMoveSelection", "Drag")
    IN  [PopTool(settled, t.aEvent) EXCEPT !.pc = "done"]

\* One pass of the move loop on event evt (lines 418-627); aLocked is what
\* CheckLock() finds and aRouter whether the inline router takes the drag.
LoopBody(t, evt, aLocked, aRouter) ==
    CASE evt \in MoveActions \cup MouseMoves \cup {"refreshPreview"} ->
           IF t.m_dragging /\ evt \in MouseMoves
           THEN [t EXCEPT !.item.pos = @ + 1, !.totalMovement = @ + 1,
                          !.pc = "loop"]
           ELSE IF ~t.m_dragging /\ evt # "refreshPreview"
           THEN IF aLocked THEN Epilogue(t, "locked")
                ELSE IF evt \notin MoveActions /\ aRouter
                THEN Epilogue(t, "router")
                ELSE [Modify([t EXCEPT !.m_dragging = TRUE])
                          EXCEPT !.undoRedoBlock = TRUE, !.pc = "loop"]
           ELSE [t EXCEPT !.pc = "loop"]
      [] evt \in {"cancel", "activate", "undo"} ->
           Epilogue([t EXCEPT !.restore_state = TRUE], evt)
      [] evt \in {"doDelete", "duplicate", "mouseUp"} ->
           Epilogue(t, evt)
      [] evt = "moveExact" ->
           Epilogue([t EXCEPT !.item.pos = @ - t.totalMovement], evt)
      [] evt = "none" ->
           Epilogue(t, "noEvents")
      [] OTHER ->
           [t EXCEPT !.pc = "loop"]

\* a handler that starts on the idle tool
Started(t, op, aEvent) ==
    [t EXCEPT !.op = op, !.aEvent = aEvent, !.entryStack = t.toolStack,
              !.restore_state = FALSE, !.exit = "none", !.totalMovement = 0,
              !.log = << >>, !.ran = op, !.acted = FALSE]

\* doMoveSelection from the pick of the reference point on (lines 378-416)
PickedForMove(t, aPicked, aLocked) ==
    IF ~aPicked
    THEN [PopTool(t, t.aEvent) EXCEPT !.pc = "done", !.exit = "pickCancelled"]
    ELSE LoopBody([t EXCEPT !.acted = TRUE, !.log = << >>],
                  t.aEvent, aLocked, FALSE)

\* Move / MoveWithReference and doMoveSelection up to the first wait
doMoveSelection(t, aEvent, aRouterActive, aEmpty, aLocked) ==
    LET run == Started(t, "doMoveSelection", aEvent)
    IN  IF aRouterActive THEN [run EXCEPT !.pc = "done", !.exit = "routerActive"]
        ELSE IF run.m_dragging \/ aEmpty
        THEN [run EXCEPT !.pc = "done", !.exit = "empty"]
        ELSE IF aEvent = "moveWithReference"
        THEN [PushTool(run, aEvent) EXCEPT !.pc = "pick"]
        ELSE PickedForMove(PushTool(run, aEvent), TRUE, aLocked)

\* copyToClipboard from the pick of the reference point on (lines 1895-1915)
PickedForCopy(t, aPicked) ==
    IF ~aPicked
    THEN [t EXCEPT !.pc = "done", !.exit = "pickCancelled"]
    ELSE [PopTool(t, SelectReferencePoint) EXCEPT !.pc = "done",
                                                   !.exit = "copied",
                                                   !.acted = TRUE]

copyToClipboard(t, aEvent, aEmpty) ==
    LET run == PushTool(Started(t, "copyToClipboard", aEvent),
                        SelectReferencePoint)
    IN  IF aEmpty
        THEN [PopTool(run, SelectReferencePoint) EXCEPT !.pc = "done",
                                                         !.exit = "empty"]
        ELSE IF aEvent = "copyWithReference"
        THEN [run EXCEPT !.pc = "pick"]
        ELSE PickedForCopy(run, TRUE)

\* BOARD_ITEM::Rotate, Mirror and Flip on the selected item
Apply(aKind, aItem) ==
    CASE aKind = "Rotate" -> [aItem EXCEPT !.angle = (@ + 1) % 4]
      [] aKind = "Mirror" -> [aItem EXCEPT !.mirrored = ~@]
      [] aKind = "Flip"   -> [aItem EXCEPT !.flipped = ~@]

\* Mutation of Transform: the push does not depend on m_dragging.
Transform_AlwaysPushes(t, aKind, aRouterActive, aEmpty) ==
    IF aRouterActive \/ aEmpty
    THEN [t EXCEPT !.ran = aKind, !.acted = FALSE]
    ELSE LET changed == [Modify(t) EXCEPT !.item = Apply(aKind, @),
                                           !.ran = aKind, !.acted = TRUE]
         IN  IF ~changed.m_dragging
             THEN Push([changed EXCEPT !.log = << >>], aKind, aKind)
             ELSE Push(changed, aKind, aKind)

\* EDIT_TOOL::Rotate, EDIT_TOOL::Mirror and EDIT_TOOL::Flip: the three
\* handlers stage, change and push alike (lines 966-1027, 1070-1166, 1169-1237)
Transform(t, aKind, aRouterActive, aEmpty) ==
    IF aRouterActive \/ aEmpty
    THEN [t EXCEPT !.ran = aKind, !.acted = FALSE]
    ELSE LET changed == [Modify(t) EXCEPT !.item = Apply(aKind, @),
                                           !.ran = aKind, !.acted = TRUE]
         IN  IF ~changed.m_dragging
             THEN Push([changed EXCEPT !.log = << >>], aKind, aKind)
             ELSE changed

AtRest(t) == t.pc \in {"idle", "done"}

\* A move action arrives while no operation runs; an input that the run does
\* not read is drawn as FALSE.
StartMove(aEvent, aRouterActive, aEmpty, aLocked) ==
    /\ AtRest(tool)
    /\ Len(tool.toolStack) < MaxStack
    /\ aRouterActive => ~aEmpty
    /\ aRouterActive \/ aEmpty => ~aLocked
    /\ tool' = doMoveSelection(tool, aEvent, aRouterActive, aEmpty, aLocked)
    /\ UNCHANGED <<boardVars, sym, symLast>>

\* A copy action arrives while no operation runs.
StartCopy(aEvent, aEmpty) ==
    /\ AtRest(tool)
    /\ Len(tool.toolStack) < MaxStack
    /\ tool' = copyToClipboard(tool, aEvent, aEmpty)
    /\ UNCHANGED <<boardVars, sym, symLast>>

\* pickReferencePoint returns: a point was picked or the pick was cancelled.
PickReturns(aPicked, aLocked) ==
    /\ tool.pc = "pick"
    /\ (tool.op = "copyToClipboard" \/ ~aPicked) => ~aLocked
    /\ tool' = IF tool.op = "doMoveSelection"
               THEN PickedForMove([tool EXCEPT !.ran = tool.op], aPicked, aLocked)
               ELSE PickedForCopy([tool EXCEPT !.ran = tool.op], aPicked)
    /\ UNCHANGED <<boardVars, sym, symLast>>

\* Wait() returns in the move loop.
MoveEvent(evt) ==
    /\ tool.pc = "loop"
    /\ evt \in MouseMoves => tool.item.pos < MaxMove
    /\ tool' = LoopBody([tool EXCEPT !.ran = tool.op], evt, FALSE, FALSE)
    /\ UNCHANGED <<boardVars, sym, symLast>>

\* A rotate, mirror or flip action arrives: on the idle tool, or passed on by
\* the picker or by the move loop. The router is not active and the selection
\* is not empty while the tool drags.
RunTransform(aKind, aRouterActive, aEmpty) ==
    /\ tool.m_dragging => ~aRouterActive /\ ~aEmpty
    /\ aRouterActive => ~aEmpty
    /\ tool' = IF AtRest(tool)
               THEN Transform([tool EXCEPT !.pc = "idle", !.op = "none",
                                           !.aEvent = "none", !.exit = "none",
                                           !.entryStack = tool.toolStack,
                                           !.log = << >>],
                              aKind, aRouterActive, aEmpty)
               ELSE Transform(tool, aKind, aRouterActive, aEmpty)
    /\ UNCHANGED <<boardVars, sym, symLast>>

InitTool ==
    /\ BoardAtRest
    /\ sym = SymbolFrame("R", {})
    /\ symLast = NoSymCall
    /\ tool = ToolIdle

NextTool ==
    \/ \E aEvent \in MoveActions, r, e, l \in BOOLEAN : StartMove(aEvent, r, e, l)
    \/ \E aEvent \in CopyActions, e \in BOOLEAN : StartCopy(aEvent, e)
    \/ \E p, l \in BOOLEAN : PickReturns(p, l)
    \/ \E evt \in LoopEvents : MoveEvent(evt)
    \/ \E k \in Transforms, r, e \in BOOLEAN : RunTransform(k, r, e)

SpecTool == InitTool /\ [][NextTool]_vars

\* ============================================================= properties
Max(S) == CHOOSE x \in S : \A y \in S : y <= x
Min(S) == CHOOSE x \in S : \A y \in S : x <= y

\* The last call was this.GetClearance( aLayer, aItem ).
Queried == last.op = "GetClearance"
ItemA == items[last.this]
ItemB == items[last.aItem]
HasItemB == last.aItem # NOITEM
\* itemB is a connected item (it has overrides, a net and a local clearance).
HasSecond == HasItemB /\ ItemB.connected

\* The larger of the local clearance overrides of itemA and of itemB.
OverrideMax ==
    Max({ItemA.override} \cup (IF HasSecond THEN {ItemB.override} ELSE {}))

\* The clearance rules that accept the query, by position in the rule list.
MatchingRules ==
    {i \in 1..Len(rules) :
        rules[i].type = "clearance" /\ rules[i].layer \in {"any", last.aLayer}}

\* The item has an effective netclass: it is attached to a board and holds a
\* net record.
Resolvable(item) == item.board /\ item.m_netinfo # NULLNET

\* The netclass an item resolves to: its net's own netclass when the net has
\* one and its net code is not 0, the Default netclass otherwise.
EffectiveClass(item) ==
    LET net == NetRecord(item.m_netinfo)
    IN  IF net.m_NetCode # 0 /\ net.m_NetClass # NULLCLASS
        THEN net.m_NetClass
        ELSE DefaultNetclass

\* The query is decided by level 3, and every netclass it reads exists.
AtLevel3 ==
    /\ Queried
    /\ ItemA.board
    /\ OverrideMax <= 0
    /\ MatchingRules = {}
    /\ Resolvable(ItemA)
    /\ HasSecond => Resolvable(ItemB)

\* The level-3 candidates of the query.
Candidates ==
    {0, bds.m_MinClearance, netclasses[EffectiveClass(ItemA)], ItemA.localClearance}
    \cup (IF HasSecond
          THEN {netclasses[EffectiveClass(ItemB)], ItemB.localClearance}
          ELSE {})
    \cup (IF HasItemB /\ ItemB.layer = Edge_Cuts
          THEN {bds.m_CopperEdgeClearance}
          ELSE {})

\* C1: override precedence.  When itemA is attached to a board and the larger
\* of itemA's local clearance override and (itemB being a connected item)
\* itemB's is strictly positive, GetClearance returns exactly that value,
\* whatever the rules, netclasses and board settings are.
C1_OverridePrecedence ==
    (Queried /\ ItemA.board /\ OverrideMax > 0)
        => (~last.out.fault /\ last.out.value = OverrideMax)

\* C1 happens: a positive override is returned although a rule with a larger
\* minimum matches the query.
C1_Witness ==
    /\ Queried /\ ItemA.board /\ OverrideMax > 0
    /\ \E i \in MatchingRules : rules[i].min > OverrideMax
    /\ last.out.value = OverrideMax

\* C2: rule precedence over defaults.  When itemA is attached to a board, no
\* local override is positive and a clearance rule matches, GetClearance
\* returns the minimum of the (first) matching rule, whatever the netclass,
\* board and local clearance values are.
C2_RulePrecedence ==
    (Queried /\ ItemA.board /\ OverrideMax <= 0 /\ MatchingRules # {})
        => (/\ ~last.out.fault
            /\ last.out.value = rules[Min(MatchingRules)].min)

\* C2 happens: the rule's minimum is returned although it is smaller than
\* the board minimum and itemA's netclass clearance.
C2_Witness ==
    /\ Queried /\ ItemA.board /\ OverrideMax <= 0 /\ MatchingRules # {}
    /\ Resolvable(ItemA)
    /\ last.out.value < bds.m_MinClearance
    /\ last.out.value < netclasses[EffectiveClass(ItemA)]

\* C3: level-3 aggregation.  With no positive override and no matching rule,
\* GetClearance returns the maximum of the level-3 candidates.
C3_Level3Maximum ==
    AtLevel3 => (~last.out.fault /\ last.out.value = Max(Candidates))

\* C3 happens: two candidates are positive and differ, the board minimum is
\* the smaller, and the result is the larger one (not the sum, not the first).
C3_Witness ==
    /\ AtLevel3
    /\ bds.m_MinClearance > 0
    /\ Max(Candidates) > bds.m_MinClearance
    /\ last.out.value = Max(Candidates)

\* C4: no-board guard.  If itemA has no owning board, GetClearance returns 0
\* and reports no source, whatever itemB, the layer, the overrides, the rules
\* and the netclasses are.
C4_NoBoardGuard ==
    (Queried /\ ~ItemA.board) => last.out = Returned(0, NOSOURCE)

\* C4 happens: itemA has no board, itemB has a positive override and a rule
\* with a positive minimum matches, and the result is 0.
C4_Witness ==
    /\ Queried /\ ~ItemA.board
    /\ OverrideMax > 0
    /\ \E i \in MatchingRules : rules[i].min > 0
    /\ last.out.value = 0

\* The query reads no netclass through a null pointer: it returns before
\* level 3, or both items have an effective netclass.
WellDefined ==
    \/ ~ItemA.board
    \/ OverrideMax > 0
    \/ MatchingRules # {}
    \/ Resolvable(ItemA) /\ (HasSecond => Resolvable(ItemB))

\* C5: edge-clearance conditional.  For itemB absent or on a layer other
\* than Edge_Cuts, a board that differs only in its copper-edge clearance
\* gives the same result.  With board minimum 150, netclass clearances 200
\* and 180, no rules, no overrides, itemB on Edge_Cuts and copper-edge
\* clearance 250, the result is 250.
C5_EdgeConditional ==
    /\ (Queried /\ ~(HasItemB /\ ItemB.layer = Edge_Cuts))
         => \A e \in Clr :
               last.out \in GetClearanceOn([bds EXCEPT !.m_CopperEdgeClearance = e],
                                           last.this, last.aItem, last.aLayer)
    /\ (Queried /\ ScenarioEdge /\ last.this = "A" /\ last.aItem = "B")
         => (~last.out.fault /\ last.out.value = 250)

\* C5 happens: itemB is present on a copper layer, level 3 decides, and the
\* result stays below the board's copper-edge clearance.
C5_Witness ==
    /\ AtLevel3 /\ HasItemB /\ ItemB.layer # Edge_Cuts
    /\ bds.m_CopperEdgeClearance > last.out.value

\* The values A.GetClearance( layer, B ) and B.GetClearance( layer, A ) agree.
SwapAgrees ==
    \A r \in GetClearanceOn(bds, last.aItem, last.this, last.aLayer) :
        ~r.fault /\ r.value = last.out.value

\* C6 as stated: at level 3, for two connected items on any layers, swapping
\* itemA and itemB gives the same clearance.
C6_SymmetricAnyLayer ==
    (AtLevel3 /\ HasSecond) => SwapAgrees

\* C6 as amended: at level 3, for two connected items that are both
\* attached to the board and of which either both or neither is on
\* Edge_Cuts, swapping itemA and itemB gives the same clearance.
C6_SymmetricSameEdge ==
    (AtLevel3 /\ HasSecond /\ (ItemA.layer = Edge_Cuts <=> ItemB.layer = Edge_Cuts))
        => SwapAgrees

\* C6 happens: two items with different netclass clearances and different
\* local clearances are swapped and the clearance is the same.
C6_Witness ==
    /\ AtLevel3 /\ HasSecond
    /\ ItemA.layer = Edge_Cuts /\ ItemB.layer = Edge_Cuts
    /\ netclasses[EffectiveClass(ItemA)] # netclasses[EffectiveClass(ItemB)]
    /\ ItemA.localClearance # ItemB.localClearance
    /\ last.out.value > 0
    /\ SwapAgrees

\* C7: monotonicity in the board minimum.  On a board that differs only in
\* its minimum clearance the result is no smaller for a larger minimum and
\* no larger for a smaller one, and it is the same when a positive local
\* override or a matching rule decides.
C7_MonotoneInMinimum ==
    (Queried /\ WellDefined)
        => \A m \in Clr :
             \A r \in GetClearanceOn([bds EXCEPT !.m_MinClearance = m],
                                     last.this, last.aItem, last.aLayer) :
                /\ ~r.fault /\ ~last.out.fault
                /\ m >= bds.m_MinClearance => r.value >= last.out.value
                /\ m <= bds.m_MinClearance => r.value <= last.out.value
                /\ (ItemA.board /\ (OverrideMax > 0 \/ MatchingRules # {}))
                      => r.value = last.out.value

\* C7 happens: the board minimum is the result at level 3, above every other
\* candidate, so that a smaller minimum gives a smaller result.
C7_Witness ==
    /\ AtLevel3
    /\ last.out.value = bds.m_MinClearance
    /\ \E r \in GetClearanceOn([bds EXCEPT !.m_MinClearance = 0],
                               last.this, last.aItem, last.aLayer) :
          r.value < last.out.value

\* The last call was GetEffectiveNetclass / GetNetClass on this item.
AskedEffective == last.op = "GetEffectiveNetclass"
AskedNetClass == last.op = "GetNetClass"
Asked == items[last.this]

\* C8: net code zero routes to Default.  For an item attached to a board
\* whose net record has net code 0, GetEffectiveNetclass returns the Default
\* netclass whatever netclass the record refers to, and a single-item query
\* decided at level 3 uses the Default netclass clearance.
C8_NetZeroIsDefault ==
    /\ (AskedEffective /\ Resolvable(Asked) /\ NetRecord(Asked.m_netinfo).m_NetCode = 0)
         => last.out = DefaultNetclass
    /\ (AtLevel3 /\ ~HasItemB /\ NetRecord(ItemA.m_netinfo).m_NetCode = 0)
         => last.out.value = Max({0, bds.m_MinClearance,
                                  netclasses[DefaultNetclass],
                                  ItemA.localClearance})

\* C8 happens: the net record has net code 0 and a stale reference to a
\* netclass with another clearance, and Default is returned.
C8_Witness ==
    /\ AskedEffective /\ Resolvable(Asked)
    /\ NetRecord(Asked.m_netinfo).m_NetCode = 0
    /\ NetRecord(Asked.m_netinfo).m_NetClass = OtherNetclass
    /\ netclasses[OtherNetclass] # netclasses[DefaultNetclass]
    /\ last.out = DefaultNetclass

\* C9 as stated: on a board and with a net record, GetEffectiveNetclass and
\* GetNetClass both return the net's own netclass when it is present and the
\* net code is non-zero, and the Default netclass otherwise.
C9_BothEffective ==
    ((AskedEffective \/ AskedNetClass) /\ Resolvable(Asked))
        => last.out = EffectiveClass(Asked)

\* C9 as amended: on a board and with a net record, GetEffectiveNetclass
\* returns the net's own netclass when it is present and the net code is
\* non-zero and the Default netclass otherwise; GetNetClass returns the
\* net's own netclass whenever it is present, also for net code 0, and the
\* Default netclass otherwise; neither result is null.
C9_NeverNull ==
    /\ (AskedEffective /\ Resolvable(Asked))
         => last.out = EffectiveClass(Asked)
    /\ (AskedNetClass /\ Resolvable(Asked))
         => last.out = (IF NetRecord(Asked.m_netinfo).m_NetClass # NULLCLASS
                        THEN NetRecord(Asked.m_netinfo).m_NetClass
                        ELSE DefaultNetclass)
    /\ ((AskedEffective \/ AskedNetClass) /\ Resolvable(Asked))
         => last.out \notin {NULLCLASS, FAULT}

\* C9 happens: GetNetClass is asked on a record with net code 0 that refers
\* to a netclass of its own, and answers with that netclass, not Default.
C9_Witness ==
    /\ AskedNetClass /\ Resolvable(Asked)
    /\ NetRecord(Asked.m_netinfo).m_NetCode = 0
    /\ NetRecord(Asked.m_netinfo).m_NetClass = OtherNetclass
    /\ last.out = OtherNetclass

\* C10: without a board, GetEffectiveNetclass and GetNetClass return a
\* defined result: they do not go through the missing board.
C10_NoBoardDefined ==
    ((AskedEffective \/ AskedNetClass) /\ ~Asked.board) => last.out # FAULT

\* C11: no exceptions for expected absences.  For every query in which
\* itemA is attached to a board, GetClearance completes and returns a value:
\* no assertion, no use of a missing object, whether itemB is absent, is a
\* connected item without a board, an item has no net or no rule matches.
C11_AlwaysReturns ==
    (Queried /\ ItemA.board) => ~last.out.fault

\* C12: non-copper items carry no net.  In every state reached by SetNetCode
\* calls and layer changes, an item that is on no copper layer has net
\* code 0.
C12_NonCopperNoNet ==
    \A id \in ConnectedIds : ~IsOnCopperLayer(id) => GetNetCode(id) = 0

\* The last call was SetNetCode on an item that is on no copper layer.
NetSetOffCopper ==
    /\ last.op = "SetNetCode"
    /\ ~IsOnCopperLayer(last.this)

\* The items to compare the last item with: the other connected item when
\* it is on the same board (or on none), has net code 0 from construction or
\* from SetNetCode( 0 ) / SetNetCode( -1 ), and the same local settings.
OrphanTwins ==
    {y \in ConnectedIds \ {last.this} :
        /\ items[y].board = items[last.this].board
        /\ items[y].override = items[last.this].override
        /\ items[y].localClearance = items[last.this].localClearance
        /\ GetNetCode(y) = 0}

\* C13: non-copper equals orphaned.  After SetNetCode( n ) on an item on
\* no copper layer, for every n, the item has net code 0 and, against the
\* same itemB on the same layer, GetClearance has the one result it has for
\* an otherwise identical item that was assigned the orphaned net code; on
\* a board GetEffectiveNetclass is the Default netclass for both.
C13_NonCopperIsOrphaned ==
    NetSetOffCopper =>
        /\ GetNetCode(last.this) = 0
        /\ \A y \in OrphanTwins :
             /\ items[last.this].board =>
                  /\ GetEffectiveNetclass(last.this) = {DefaultNetclass}
                  /\ GetEffectiveNetclass(y) = {DefaultNetclass}
             /\ \A aItem \in {"C", NOITEM}, aLayer \in QueryLayers :
                  /\ GetClearance(last.this, aItem, aLayer) = GetClearance(y, aItem, aLayer)
                  /\ \A r \in GetClearance(y, aItem, aLayer) :
                       /\ ~r.fault
                       /\ GetClearance(y, aItem, aLayer) = {r}

\* C13 happens: a board item on Edge_Cuts was asked for net code 1, the
\* other item holds the orphaned record, and at level 3 both get the
\* clearance of the Default netclass, not that of net 1's netclass.
C13_Witness ==
    /\ NetSetOffCopper /\ last.arg = 1 /\ items[last.this].board
    /\ rules = <<>>
    /\ \E y \in OrphanTwins :
         /\ items[y].m_netinfo = ORPHANED
         /\ items[last.this].m_netinfo # ORPHANED
         /\ GetClearance(y, NOITEM, F_Cu)
              = {Returned(netclasses[DefaultNetclass], NetclassSource(DefaultNetclass))}
         /\ GetClearance(last.this, NOITEM, F_Cu) = GetClearance(y, NOITEM, F_Cu)
         /\ netclasses[OtherNetclass] > netclasses[DefaultNetclass]

\* The last call was SetNetCode; the code it went on with after the
\* copper-layer check.
NetSet == last.op = "SetNetCode"
EffectiveCode == IF IsOnCopperLayer(last.this) THEN last.arg ELSE 0
OrphanedUntouched ==
    nets[ORPHANED] = [m_NetCode |-> 0, m_NetClass |-> OrphanNetclass]

C15_QueriesArePure ==
    [][ last'.op \in {"GetClearance", "GetEffectiveNetclass", "GetRuleClearance"}
          => <<bds, netclasses, rules, nets, items>>'
               = <<bds, netclasses, rules, nets, items>> ]_vars

\* C15 happens: a query was answered at level 3 with a positive clearance
\* larger than the item's local clearance, and asking again gives that answer.
C15_Witness ==
    /\ Queried /\ ~last.out.fault
    /\ last.out.value > ItemA.localClearance
    /\ GetClearance(last.this, last.aItem, last.aLayer) = {last.out}

\* C16: single-item query.  With itemB absent GetClearance returns itemA's
\* positive local override if any, else the minimum of the first rule that
\* matches (itemA, none, layer) if any, else the maximum of 0, the board
\* minimum, the clearance of itemA's effective netclass and itemA's local
\* clearance: nothing of another item and no copper-edge clearance is
\* included, and no error is raised.
C16_SingleItem ==
    (Queried /\ ~HasItemB /\ ItemA.board /\ WellDefined)
        => /\ ~last.out.fault
           /\ last.out.value =
                (IF ItemA.override > 0
                 THEN ItemA.override
                 ELSE IF MatchingRules # {}
                      THEN rules[Min(MatchingRules)].min
                      ELSE Max({0, bds.m_MinClearance,
                                netclasses[EffectiveClass(ItemA)],
                                ItemA.localClearance}))

\* C16 happens: a single-item query is decided at level 3 with a positive
\* result, on a board whose copper-edge clearance is larger and next to an
\* item with a larger local clearance.
C16_Witness ==
    /\ AtLevel3 /\ ~HasItemB
    /\ last.out.value > 0
    /\ bds.m_CopperEdgeClearance > last.out.value
    /\ \E id \in ConnectedIds \ {last.this} :
         items[id].localClearance > last.out.value

\* C17: non-negative result.  GetClearance never returns a negative value,
\* whatever the overrides, the local clearances, the netclass clearances,
\* the board settings and the minimum of a matching rule are.
C17_NonNegative ==
    (Queried /\ ~last.out.fault) => last.out.value >= 0

\* The level-3 candidates of the query in the order they are compared:
\* whether the candidate applies, its value and its label.
OrderedCandidates ==
    << [applies |-> TRUE, value |-> bds.m_MinClearance, source |-> MinSource],
       [applies |-> TRUE, value |-> netclasses[EffectiveClass(ItemA)],
        source |-> NetclassSource(EffectiveClass(ItemA))],
       IF HasSecond
       THEN [applies |-> TRUE, value |-> netclasses[EffectiveClass(ItemB)],
             source |-> NetclassSource(EffectiveClass(ItemB))]
       ELSE [applies |-> FALSE, value |-> 0, source |-> NOSOURCE],
       [applies |-> HasItemB /\ ItemB.layer = Edge_Cuts,
        value |-> bds.m_CopperEdgeClearance, source |-> EdgeSource],
       [applies |-> TRUE, value |-> ItemA.localClearance,
        source |-> LocalSource(last.this)],
       IF HasSecond
       THEN [applies |-> TRUE, value |-> ItemB.localClearance,
             source |-> LocalSource(last.aItem)]
       ELSE [applies |-> FALSE, value |-> 0, source |-> NOSOURCE] >>

\* The positions of the candidates that apply and have the returned value.
Labelled ==
    {i \in 1..Len(OrderedCandidates) :
        /\ OrderedCandidates[i].applies
        /\ OrderedCandidates[i].value = last.out.value}

\* C18: provenance label.  When level 3 decides with a positive result, the
\* label returned is that of a candidate whose value is the result, and of
\* the earliest such candidate in the order board minimum, itemA netclass,
\* itemB netclass, board edge, itemA local clearance, itemB local clearance;
\* when no candidate is positive no label is written.
C18_LabelOfEarliestMaximum ==
    AtLevel3 =>
        IF last.out.value > 0
        THEN /\ Labelled # {}
             /\ last.out.source = OrderedCandidates[Min(Labelled)].source
        ELSE last.out.source = NOSOURCE

\* C18 happens: the board minimum and a later candidate with another label
\* tie for the positive maximum, and the label is "board minimum".
C18_Witness ==
    /\ AtLevel3 /\ last.out.value > 0
    /\ Cardinality({OrderedCandidates[i].source : i \in Labelled}) > 1
    /\ 1 \in Labelled
    /\ last.out.source = MinSource

\* The last call was this.GetRuleClearance( aItem, aLayer, &clearance ).
AskedRule == last.op = "GetRuleClearance"

\* C19: first matching rule wins.  GetRuleClearance reports a match exactly
\* when some rule of the ordered list accepts the query with constraint type
\* clearance; it then gives the minimum of the first such rule, whatever
\* later rules match, and that rule's name as label; with no match the
\* caller's clearance and source are as they were.
C19_FirstMatchingRule ==
    AskedRule =>
        /\ last.out.found <=> MatchingRules # {}
        /\ MatchingRules # {} =>
             /\ last.out.clearance = rules[Min(MatchingRules)].min
             /\ last.out.source = <<"rule", rules[Min(MatchingRules)].name>>
        /\ MatchingRules = {} =>
             /\ last.out.clearance = last.arg
             /\ last.out.source = NOSOURCE

\* C19 happens: a rule of another constraint type comes first and two
\* clearance rules with different minimums match; the minimum and the name
\* of the first clearance rule are returned.
C19_Witness ==
    /\ AskedRule /\ last.out.found
    /\ Cardinality(MatchingRules) > 1
    /\ Min(MatchingRules) > 1
    /\ \E i \in MatchingRules : rules[i].min # last.out.clearance
    /\ last.out.clearance = rules[Min(MatchingRules)].min
    /\ last.out.source = <<"rule", rules[Min(MatchingRules)].name>>

\* Level 3 decides the query and itemA's net record has a non-zero net code
\* and no netclass.
NullNetclassAtLevel3 ==
    /\ AtLevel3
    /\ NetRecord(ItemA.m_netinfo).m_NetCode # 0
    /\ NetRecord(ItemA.m_netinfo).m_NetClass = NULLCLASS

\* C20 as stated: when GetClearance reaches level 3 for an item on a board
\* with a non-zero net code whose netclass is null, the call fails (an
\* assertion) instead of returning a clearance.
C20_NullNetclassAsserts ==
    NullNetclassAtLevel3 => last.out.fault

\* C20 as amended: when GetClearance reaches level 3 for an item on a board
\* with a non-zero net code whose net record has no netclass, nothing is
\* asserted: the Default netclass stands in for the missing one and the
\* call returns the maximum of the level-3 candidates with the Default
\* netclass clearance as itemA's netclass candidate.
C20_NullNetclassIsDefault ==
    NullNetclassAtLevel3 =>
        /\ ~last.out.fault
        /\ last.out.value =
             Max({0, bds.m_MinClearance, netclasses[DefaultNetclass],
                  ItemA.localClearance}
                 \cup (IF HasSecond
                       THEN {netclasses[EffectiveClass(ItemB)], ItemB.localClearance}
                       ELSE {})
                 \cup (IF HasItemB /\ ItemB.layer = Edge_Cuts
                       THEN {bds.m_CopperEdgeClearance}
                       ELSE {}))

\* C20 happens: the net record has no netclass and the result is the
\* clearance of the Default netclass, above every other candidate.
C20_Witness ==
    /\ NullNetclassAtLevel3
    /\ ~last.out.fault
    /\ last.out.value = netclasses[DefaultNetclass]
    /\ last.out.source = NetclassSource(DefaultNetclass)
    /\ last.out.value > bds.m_MinClearance
    /\ last.out.value > ItemA.localClearance

\* The level that fixed the result, read from the label that came with it.
DecidedBy(kind) == last.out.source # NOSOURCE /\ last.out.source[1] = kind

\* C21: strict cascade.  A positive local override is the result whatever
\* the lower levels hold; without one, a matching rule is the result also
\* when its minimum is 0 and the board minimum, a netclass clearance or a
\* local clearance is positive; level 3 is consulted only when there is no
\* positive override and no matching rule.
C21_StrictCascade ==
    (Queried /\ ItemA.board /\ ~last.out.fault)
        => /\ DecidedBy("override") <=> OverrideMax > 0
           /\ DecidedBy("rule") <=> (OverrideMax <= 0 /\ MatchingRules # {})
           /\ (OverrideMax <= 0 /\ MatchingRules # {}
                 /\ rules[Min(MatchingRules)].min = 0)
                => last.out.value = 0
           /\ OverrideMax > 0 => last.out.value = OverrideMax

\* C21 happens: no override, the first matching rule has minimum 0, the
\* board minimum and itemA's local clearance are positive, the result is 0.
C21_Witness ==
    /\ Queried /\ ItemA.board /\ OverrideMax <= 0
    /\ MatchingRules # {} /\ rules[Min(MatchingRules)].min = 0
    /\ bds.m_MinClearance > 0 /\ ItemA.localClearance > 0
    /\ last.out.value = 0
    /\ DecidedBy("rule")

\* itemB is present and is not a connected item.
PlainItemB == HasItemB /\ ~ItemB.connected

\* C22: second item that is not a connected item.  itemB is still passed to
\* the rule lookup and still brings in the copper-edge clearance when it is
\* on Edge_Cuts, but none of its override, netclass and local clearance: the
\* result is itemA's override if positive, else the first matching rule's
\* minimum, else the maximum of 0, the board minimum, itemA's netclass
\* clearance, itemA's local clearance and, for itemB on Edge_Cuts, the
\* copper-edge clearance.
C22_PlainSecondItem ==
    (Queried /\ PlainItemB /\ ItemA.board /\ WellDefined)
        => /\ ~last.out.fault
           /\ last.out.value =
                (IF ItemA.override > 0
                 THEN ItemA.override
                 ELSE IF MatchingRules # {}
                      THEN rules[Min(MatchingRules)].min
                      ELSE Max({0, bds.m_MinClearance,
                                netclasses[EffectiveClass(ItemA)],
                                ItemA.localClearance}
                               \cup (IF ItemB.layer = Edge_Cuts
                                     THEN {bds.m_CopperEdgeClearance}
                                     ELSE {})))

\* C22 happens: itemB is a board outline segment, level 3 decides and the
\* result is the copper-edge clearance, above every candidate of itemA.
C22_Witness ==
    /\ AtLevel3 /\ PlainItemB /\ ItemB.layer = Edge_Cuts
    /\ last.out.value = bds.m_CopperEdgeClearance
    /\ last.out.source = EdgeSource
    /\ last.out.value > bds.m_MinClearance
    /\ last.out.value > netclasses[EffectiveClass(ItemA)]
    /\ last.out.value > ItemA.localClearance

\* The net codes the board has a net for.
BoardCodes == {nets[ref].m_NetCode : ref \in BoardNetRefs}

\* C23: SetNetCode result and net reference.  SetNetCode returns true
\* exactly when the item's net reference is non-null afterwards.  With a
\* negative code (as it stands after the non-copper normalisation to 0) or
\* without a board the item refers to the orphaned record and the call
\* returns true; on a board a non-negative code gives the board's net for
\* that code, and when the board has none the call returns false and the
\* reference is null.
C23_SetNetCodeResult ==
    NetSet =>
        /\ last.out.ret <=> items[last.this].m_netinfo # NULLNET
        /\ (EffectiveCode < 0 \/ ~items[last.this].board)
             => (items[last.this].m_netinfo = ORPHANED /\ last.out.ret)
        /\ (items[last.this].board /\ EffectiveCode \in BoardCodes)
             => /\ items[last.this].m_netinfo \in BoardNetRefs
                /\ GetNetCode(last.this) = EffectiveCode
                /\ last.out.ret
        /\ (items[last.this].board /\ EffectiveCode >= 0
              /\ EffectiveCode \notin BoardCodes)
             => (items[last.this].m_netinfo = NULLNET /\ ~last.out.ret)

\* C23 happens: an item on a board and on a copper layer was given a code
\* the board has no net for; the call returned false and the reference is
\* null.
C23_Witness ==
    /\ NetSet
    /\ items[last.this].board /\ IsOnCopperLayer(last.this)
    /\ last.arg >= 0 /\ last.arg \notin BoardCodes
    /\ ~last.out.ret
    /\ items[last.this].m_netinfo = NULLNET

\* ---- symbol editor
SymDid(op) == symLast.op = op
Before == symLast.before

\* C24: SaveCopyInUndoList with an item pushes exactly one undo entry, which
\* holds a new part object copied from the item (not the current part itself)
\* and the given undo type, and leaves the redo list empty; without an item
\* neither list changes.
C24_SaveCopy ==
    SymDid("SaveCopyInUndoList") =>
        IF symLast.aItem = NULLPART
        THEN sym.undoList = Before.undoList /\ sym.redoList = Before.redoList
        ELSE /\ Len(sym.undoList) = Len(Before.undoList) + 1
             /\ Popped(sym.undoList) = Before.undoList
             /\ LET copy == Top(sym.undoList).item
                IN  /\ copy \notin {sym.m_my_part, symLast.aItem}
                    /\ Before.parts[copy].state = "free"
                    /\ sym.parts[copy].state = "live"
                    /\ sym.parts[copy].name = Before.parts[symLast.aItem].name
                    /\ Top(sym.undoList).status = symLast.aUndoType
             /\ GetRedoCommandCount(sym) = 0
             /\ sym.m_my_part = Before.m_my_part

\* a save made while there was something to redo
C24_Witness ==
    /\ SymDid("SaveCopyInUndoList")
    /\ symLast.aItem # NULLPART
    /\ GetRedoCommandCount(Before) > 0
    /\ GetUndoCommandCount(Before) > 0

\* the current part and both lists of a frame
Held(st) == <<st.m_my_part, st.undoList, st.redoList>>

\* C25: an undo with a non-empty undo list makes the part of the top undo
\* entry current and pushes the part it replaces onto the redo list with the
\* same undo type, and a redo right after it brings back the current part and
\* both lists; the same holds for a redo followed by an undo; an undo or a
\* redo leaves the sum of the undo count and the redo count as it was.
C25_UndoRedoRoundTrip ==
    /\ (SymDid("GetSymbolFromUndoList") /\ GetUndoCommandCount(Before) > 0) =>
           /\ sym.m_my_part = Top(Before.undoList).item
           /\ sym.undoList = Popped(Before.undoList)
           /\ sym.redoList = Append(Before.redoList,
                                    ITEM_PICKER(Before.m_my_part,
                                                Top(Before.undoList).status))
           /\ Held(GetSymbolFromRedoList(sym)) = Held(Before)
    /\ (SymDid("GetSymbolFromRedoList") /\ GetRedoCommandCount(Before) > 0) =>
           /\ sym.m_my_part = Top(Before.redoList).item
           /\ sym.redoList = Popped(Before.redoList)
           /\ sym.undoList = Append(Before.undoList,
                                    ITEM_PICKER(Before.m_my_part,
                                                Top(Before.redoList).status))
           /\ Held(GetSymbolFromUndoList(sym)) = Held(Before)
    /\ (SymDid("GetSymbolFromUndoList") \/ SymDid("GetSymbolFromRedoList")) =>
           GetUndoCommandCount(sym) + GetRedoCommandCount(sym)
               = GetUndoCommandCount(Before) + GetRedoCommandCount(Before)

\* an undo of a rename while there was already something to redo
C25_Witness ==
    /\ SymDid("GetSymbolFromUndoList")
    /\ GetUndoCommandCount(Before) > 0
    /\ Top(Before.undoList).status = "LIB_RENAME"
    /\ GetRedoCommandCount(Before) > 0

\* the number of places that hold part p: the frame and the entries of the lists
Holders(p) ==
    (IF sym.m_my_part = p THEN 1 ELSE 0)
    + Cardinality({i \in 1 .. Len(sym.undoList) : sym.undoList[i].item = p})
    + Cardinality({i \in 1 .. Len(sym.redoList) : sym.redoList[i].item = p})

\* C26: after any sequence of saves, undos, redos and rollbacks every part
\* object that exists is held in exactly one place (the current part, one undo
\* entry or one redo entry), and a part that is held has not been deleted.
C26_SingleOwner ==
    \A p \in PartIds :
        /\ Holders(p) <= 1
        /\ Holders(p) = 1 <=> sym.parts[p].state = "live"

\* a redo that leaves parts in the frame and in both lists
C26_Witness ==
    /\ SymDid("GetSymbolFromRedoList")
    /\ GetRedoCommandCount(Before) > 1
    /\ GetUndoCommandCount(Before) > 0

\* C27: a rollback with a non-empty undo list removes exactly the top undo
\* entry, makes its part the current part with UR_TRANSIENT cleared, leaves
\* the redo list as it was and puts the replaced part in no list; with an
\* empty undo list the current part and both lists stay as they were.
C27_Rollback ==
    SymDid("RollbackSymbolFromUndo") =>
        IF GetUndoCommandCount(Before) = 0
        THEN Held(sym) = Held(Before)
        ELSE /\ sym.undoList = Popped(Before.undoList)
             /\ sym.m_my_part = Top(Before.undoList).item
             /\ UR_TRANSIENT \notin sym.parts[sym.m_my_part].flags
             /\ sym.redoList = Before.redoList
             /\ Holders(Before.m_my_part) = 0

\* a rollback while there was something to undo and something to redo
C27_Witness ==
    /\ SymDid("RollbackSymbolFromUndo")
    /\ GetUndoCommandCount(Before) > 0
    /\ GetRedoCommandCount(Before) > 0

\* a rollback at the bottom of the undo list
C27_WitnessEmpty ==
    /\ SymDid("RollbackSymbolFromUndo")
    /\ GetUndoCommandCount(Before) = 0
    /\ GetRedoCommandCount(Before) > 0

\* ---- edit tool
MoveDone == tool.op = "doMoveSelection" /\ tool.pc = "done"
EnteredLoop == tool.exit \notin {"routerActive", "empty", "pickCancelled"}
Restoring == {"cancel", "activate", "undo"}
CallsBy(by) == {i \in 1 .. Len(tool.log) : tool.log[i].by = by}
LastCall == tool.log[Len(tool.log)]

\* C28: when a run of doMoveSelection that entered its loop has returned,
\* whatever events it received, m_dragging is false, the undo/redo block is
\* released, the tool it pushed is off the tool stack and it has settled the
\* commit exactly once: by Revert when the loop ended on cancel, tool
\* activation or undo, by Push( "Drag" ) on every other exit.
C28_MoveSettles ==
    (MoveDone /\ EnteredLoop) =>
        /\ ~tool.m_dragging
        /\ ~tool.undoRedoBlock
        /\ tool.toolStack = tool.entryStack
        /\ Cardinality(CallsBy("doMoveSelection")) = 1
        /\ LastCall.by = "doMoveSelection"
        /\ LastCall.call = (IF tool.exit \in Restoring THEN "Revert" ELSE "Push")
        /\ LastCall.call = "Push" => LastCall.message = "Drag"
        /\ ~tool.commit.staged

\* a move with a picked reference point, cancelled after the item was dragged
C28_Witness ==
    /\ MoveDone
    /\ tool.aEvent = "moveWithReference"
    /\ tool.exit = "cancel"
    /\ LastCall.commit.staged

\* a move that ends before it starts dragging because the selection is locked
C28_WitnessLocked == MoveDone /\ tool.exit = "locked"

\* a move that ends because there are no more events
C28_WitnessNoEvents == MoveDone /\ tool.exit = "noEvents" /\ tool.item.pos > 0

TransformRan == tool.ran \in Transforms /\ tool.acted

\* C29: a Rotate, Mirror or Flip that changes the selection while m_dragging
\* is set stages its change in the shared commit and does not push; when the
\* move is cancelled the item is back in the state the commit saved, and when
\* the move completes there is the one push of the move. While m_dragging is
\* not set each of the three pushes its own commit, named after it, before it
\* returns and leaves nothing staged.
C29_TransformsShareCommit ==
    /\ \A i \in 1 .. Len(tool.log) :
         ~(tool.log[i].by \in Transforms /\ tool.log[i].dragging)
    /\ (TransformRan /\ tool.m_dragging) =>
           tool.commit.staged /\ tool.log = << >>
    /\ (MoveDone /\ EnteredLoop /\ tool.exit \in Restoring /\ LastCall.commit.staged) =>
           tool.item = LastCall.commit.saved
    /\ (MoveDone /\ EnteredLoop /\ tool.exit \notin Restoring) =>
           /\ Len(tool.log) = 1
           /\ tool.exit \notin {"locked", "moveExact"} =>
                  /\ LastCall.commit.staged
                  /\ tool.item.pos >= LastCall.commit.saved.pos
    /\ (TransformRan /\ ~tool.m_dragging) =>
           /\ Len(tool.log) = 1
           /\ LastCall.by = tool.ran
           /\ LastCall.call = "Push"
           /\ LastCall.message = tool.ran
           /\ LastCall.commit.staged
           /\ Apply(tool.ran, LastCall.commit.saved) = tool.item
           /\ ~tool.commit.staged

\* a move completed after the dragged item was rotated and flipped: the one
\* push holds the state before the move
C29_Witness ==
    /\ MoveDone
    /\ tool.exit = "mouseUp"
    /\ tool.item.pos > LastCall.commit.saved.pos
    /\ tool.item.angle # LastCall.commit.saved.angle
    /\ tool.item.flipped # LastCall.commit.saved.flipped

\* a mirror while the item is dragged
C29_WitnessDragging ==
    tool.ran = "Mirror" /\ tool.acted /\ tool.m_dragging /\ tool.item.pos > 0

\* a rotate on the idle tool and a flip while a reference point is picked
C29_WitnessIdle == tool.ran = "Rotate" /\ tool.acted /\ tool.pc = "idle"
C29_WitnessPicking == tool.ran = "Flip" /\ tool.acted /\ tool.pc = "pick"

\* C30: when an operation of EDIT_TOOL has returned, the tool stack is as it
\* was when the operation began: whatever it pushed it has popped, on every
\* exit path, also when copyToClipboard's pick of a reference point is
\* cancelled.
C30_ToolsPopped ==
    tool.pc = "done" => tool.toolStack = tool.entryStack

\* the same for doMoveSelection alone, which pops on each of its exits
C30_MovePopsTool ==
    MoveDone => tool.toolStack = tool.entryStack

\* a copy with reference whose pick was cancelled has returned
C30_CancelledCopy ==
    /\ tool.op = "copyToClipboard"
    /\ tool.pc = "done"
    /\ tool.exit = "pickCancelled"

====
